---------------------------- MODULE Spec2Model ----------------------------
(***************************************************************************)
(* Model of scripts/generate_checkpoint.py: the extraction of the          *)
(* HSK_CHECKPOINT_MAIN array initializer from a header text                *)
(* (extract_checkpoint_array), the decoding of its \xHH escapes            *)
(* (extract_hex_strings) and the size / height checks and the write of     *)
(* the binary artifact (main).                                             *)
(*                                                                         *)
(* Texts are sequences of one-character strings.  Python indices are       *)
(* 0-based and are kept 0-based in the variables; At and Slice convert.    *)
(* The file reader and the file writer are taken to succeed: the only      *)
(* failures modelled are the ones the script itself decides.               *)
(***************************************************************************)
EXTENDS Integers, Sequences, FiniteSets, TLC

VARIABLES
    content,          \* text of the input file (f.read(), line 43)
    pc,               \* position in main / extract_checkpoint_array
    array_start,      \* line 47
    brace_start,      \* line 52
    brace_count,      \* line 57
    brace_end,        \* line 58
    i,                \* loop variable of line 60
    array_content,    \* line 73 / 102
    checkpoint_data,  \* line 105
    height,           \* line 122
    output,           \* bytes of the file written at line 135
    stdout,           \* messages printed to stdout, in order
    stderr,           \* messages printed to stderr, in order
    exit_code         \* status of sys.exit, -1 while running

vars == <<content, pc, array_start, brace_start, brace_count, brace_end, i,
          array_content, checkpoint_data, height, output, stdout, stderr,
          exit_code>>

-----------------------------------------------------------------------------
(* Bounds of the model *)

\* longest piece-built input text, in pieces
MaxPieces == 5
\* longest byte record embedded in a generated declaration
MaxBytes == 5
\* longest short record given to the validation steps directly
MaxShort == 5

-----------------------------------------------------------------------------
(* Text helpers *)

\* s[k] of Python, k 0-based
At(s, k) == s[k + 1]

\* s[a:b] of Python for 0 <= a, b <= len(s)
Slice(s, a, b) == SubSeq(s, a + 1, b)

\* the searched token of line 47: 'HSK_CHECKPOINT_MAIN['
Name == <<"H","S","K","_","C","H","E","C","K","P","O","I","N","T","_",
          "M","A","I","N","[">>

\* str.find(sub, start): lowest index >= start where sub occurs, else -1
Find(s, sub, start) ==
    LET hits == {k \in start .. (Len(s) - Len(sub)) :
                    Slice(s, k, k + Len(sub)) = sub}
    IN  IF hits = {} THEN -1
        ELSE CHOOSE k \in hits : \A m \in hits : k <= m

\* CountAfter without the '{' branch
CountAfter_NoNesting(c, count) ==
    IF c = "}" THEN count - 1 ELSE count

\* the effect of one character on brace_count: lines 61-64
CountAfter(c, count) ==
    IF c = "{" THEN count + 1
    ELSE IF c = "}" THEN count - 1
    ELSE count

\* ArraySlice that keeps both braces
ArraySlice_WithBraces(s, bs, be) == Slice(s, bs, be + 1)

\* content[brace_start + 1:brace_end] of line 73
ArraySlice(s, bs, be) == Slice(s, bs + 1, be)

\* values standing for a variable that has not been assigned yet
NoText == <<"None">>
NoBytes == <<-1>>


-----------------------------------------------------------------------------
(* extract_hex_strings *)

LowerHex == <<"0","1","2","3","4","5","6","7","8","9","a","b","c","d","e","f">>
UpperHex == <<"0","1","2","3","4","5","6","7","8","9","A","B","C","D","E","F">>

\* IsHexDigit without the upper-case digits
IsHexDigit_LowerOnly(c) ==
    \E k \in 1..16 : LowerHex[k] = c

\* the character class [0-9a-fA-F] of line 27
IsHexDigit(c) ==
    \E k \in 1..16 : LowerHex[k] = c \/ UpperHex[k] = c

\* value of one hex digit, as int(_, 16) reads it
HexDigitValue(c) ==
    (CHOOSE k \in 1..16 : LowerHex[k] = c \/ UpperHex[k] = c) - 1

\* IntBase16 with the two digits in the wrong order
IntBase16_Swapped(hex_str) ==
    16 * HexDigitValue(hex_str[2]) + HexDigitValue(hex_str[1])

\* int(hex_str, 16) of line 33 for the two-digit group of a match
IntBase16(hex_str) ==
    16 * HexDigitValue(hex_str[1]) + HexDigitValue(hex_str[2])

\* the pattern \\x([0-9a-fA-F]{2}) matches at 0-based position p of s
HexPatternAt(s, p) ==
    /\ p + 4 <= Len(s)
    /\ At(s, p) = "\\"
    /\ At(s, p + 1) = "x"
    /\ IsHexDigit(At(s, p + 2))
    /\ IsHexDigit(At(s, p + 3))

\* re.findall(hex_pattern, s): scan from p; a match yields its group and the
\* scan resumes after the match, a miss moves on by one character
RECURSIVE FindAllFrom(_, _)
FindAllFrom(s, p) ==
    IF p + 4 > Len(s) THEN <<>>
    ELSE IF HexPatternAt(s, p)
         THEN <<Slice(s, p + 2, p + 4)>> \o FindAllFrom(s, p + 4)
         ELSE FindAllFrom(s, p + 1)

extract_hex_strings(text) ==
    LET matches == FindAllFrom(text, 0)
    IN  [k \in 1..Len(matches) |-> IntBase16(matches[k])]

-----------------------------------------------------------------------------
(* the checks of main *)

\* line 108
expected_size == 4 + 32 + (150 * 236)

\* the height the script expects (lines 123, 125, 126)
expected_height == 136000

\* a << k on Python's unbounded integers
ShiftLeft(a, k) == a * (2 ^ k)

\* a | b on non-negative integers, bit by bit
RECURSIVE BitOr(_, _)
BitOr(a, b) ==
    IF a = 0 THEN b
    ELSE IF b = 0 THEN a
    ELSE (IF a % 2 = 1 \/ b % 2 = 1 THEN 1 ELSE 0)
         + 2 * BitOr(a \div 2, b \div 2)

\* HeightOf with the least significant byte first
HeightOf_LittleEndian(height_bytes) ==
    BitOr(BitOr(BitOr(ShiftLeft(height_bytes[4], 24),
                      ShiftLeft(height_bytes[3], 16)),
                ShiftLeft(height_bytes[2], 8)),
          height_bytes[1])

\* line 122
HeightOf(height_bytes) ==
    BitOr(BitOr(BitOr(ShiftLeft(height_bytes[1], 24),
                      ShiftLeft(height_bytes[2], 16)),
                ShiftLeft(height_bytes[3], 8)),
          height_bytes[4])

\* SizeMismatch with < for #
SizeMismatch_Less(n) == n < expected_size

\* the test of line 113
SizeMismatch(n) == n # expected_size

\* HasHeightField with > for >=
HasHeightField_Strict(data) == Len(data) > 4

\* the test of line 120
HasHeightField(data) == Len(data) >= 4

\* the lines print() writes; a message is <<text, first number, second number>>
MsgReading == <<"Reading checkpoint data from", 0, 0>>
MsgInputNotFound == <<"Error: Input file not found", 0, 0>>
MsgExtracted(n) == <<"Extracted bytes of checkpoint data", n, 0>>
MsgExpectedSize(e) == <<"Expected size", e, 0>>
MsgSizeMismatch(e, n) == <<"Warning: Size mismatch! Expected, got", e, n>>
MsgSizeHint == <<"This may indicate an issue with the checkpoint extraction.", 0, 0>>
MsgSizeOk == <<"Size matches expected format", 0, 0>>
MsgHeight(h, e) == <<"Checkpoint height (expected)", h, e>>
MsgHeightMismatch(e, h) == <<"Warning: Height mismatch! Expected, got", e, h>>
MsgHeightOk == <<"Height verification passed", 0, 0>>
MsgWrote == <<"Successfully wrote checkpoint to", 0, 0>>
MsgFileSize(n) == <<"File size", n, 0>>

\* the three ValueError messages of extract_checkpoint_array
ErrNotFound == <<"Error: Could not find HSK_CHECKPOINT_MAIN array in file", 0, 0>>
ErrNoBrace == <<"Error: Could not find opening brace for HSK_CHECKPOINT_MAIN array", 0, 0>>
ErrUnbalanced == <<"Error: Could not find matching closing brace for HSK_CHECKPOINT_MAIN array", 0, 0>>

-----------------------------------------------------------------------------
(* Input texts *)

RECURSIVE Concat(_)
Concat(parts) ==
    IF parts = <<>> THEN <<>> ELSE Head(parts) \o Concat(Tail(parts))

\* texts built from the tokens the locator reacts to, in any order
Pieces == { Name, <<"{">>, <<"}">>, <<"\\","x","0","a">> }

PieceTexts ==
    { Concat(f) : f \in UNION { [1..n -> Pieces] : n \in 0..MaxPieces } }

\* first four bytes of the sample records (the top byte stays below 128:
\* TLC's integers are 32-bit signed)
Heads == { <<0, 2, 19, 64>>, <<0, 0, 0, 1>>, <<127, 255, 255, 255>>,
           <<64, 19, 2, 0>>, <<0, 2, 19, 65>>, <<1, 2, 3, 4>> }

\* a record of n bytes that starts with (a prefix of) head
Record(head, n) ==
    [k \in 1..n |-> IF k <= 4 THEN head[k] ELSE (k * 37) % 256]

\* one byte written as an escape, in lower or upper case digits
Escape(b, digits) == <<"\\", "x", digits[(b \div 16) + 1], digits[(b % 16) + 1]>>

\* the ways a byte sequence is written as the text of an initializer
Styles == {1, 2, 3}

\* a byte sequence written as the text of an initializer: style 1 is one
\* string literal, style 2 one upper-case literal per byte, separated by
\* line breaks, style 3 the string literal inside braces of its own
Literal(B, style) ==
    LET one == <<"\"">> \o Concat([k \in 1..Len(B) |-> Escape(B[k], LowerHex)])
                       \o <<"\"">>
    IN  IF style = 1 THEN one
        ELSE IF style = 2
        THEN Concat([k \in 1..Len(B) |->
                        <<"\"">> \o Escape(B[k], UpperHex) \o <<"\"", "\n">>])
        ELSE <<"{">> \o one \o <<"}", ",">>

\* text before the declaration
Prefixes ==
    { <<>>,
      <<"s","t","a","t","i","c"," ">>,
      <<"{","}"," ">>,
      Name \o <<"]",";"," ">>,
      Name \o <<"]","{","\\","x","f","f","}",";">> }

\* text between the name and the opening brace
Mids == { <<"]"," ","="," ">>, <<"3","]","=">> }

\* text after the closing brace
Suffixes == { <<>>, <<";","\n","{","}","}">>, <<";","\"","\\","x","0","1","\"">> }

Declaration(pre, mid, B, style, suf) ==
    pre \o Name \o mid \o <<"{">> \o Literal(B, style) \o <<"}">> \o suf

Declarations ==
    { Declaration(pre, mid, Record(h, n), style, suf) :
        pre \in Prefixes, mid \in Mids, h \in Heads, n \in 0..MaxBytes,
        style \in Styles, suf \in Suffixes }

-----------------------------------------------------------------------------
(* main and extract_checkpoint_array, step by step *)

Init ==
    /\ content \in PieceTexts \cup Declarations
    /\ pc = "start"
    /\ array_start = -1
    /\ brace_start = -1
    /\ brace_count = 0
    /\ brace_end = -1
    /\ i = -1
    /\ array_content = NoText
    /\ checkpoint_data = NoBytes
    /\ height = -1
    /\ output = NoBytes
    /\ stdout = <<>>
    /\ stderr = <<>>
    /\ exit_code = -1

\* Raise with the exception swallowed: the run goes on to the write
Raise_Swallowed(msg) ==
    /\ stderr' = Append(stderr, msg)
    /\ exit_code' = exit_code
    /\ pc' = "write"

\* `raise ValueError(msg)` inside the try of main: lines 140-142
Raise(msg) ==
    /\ stderr' = Append(stderr, msg)
    /\ exit_code' = 1
    /\ pc' = "exit"

\* lines 94-98
CheckInput ==
    /\ pc = "start"
    /\ \E exists \in BOOLEAN :
          IF exists
          THEN /\ stdout' = Append(stdout, MsgReading)
               /\ pc' = "find_name"
               /\ UNCHANGED <<stderr, exit_code>>
          ELSE /\ stderr' = Append(stderr, MsgInputNotFound)
               /\ exit_code' = 1
               /\ pc' = "exit"
               /\ UNCHANGED stdout
    /\ UNCHANGED <<content, array_start, brace_start, brace_count, brace_end, i,
                   array_content, checkpoint_data, height, output>>

\* lines 47-49
FindArray ==
    /\ pc = "find_name"
    /\ array_start' = Find(content, Name, 0)
    /\ IF array_start' = -1
       THEN Raise(ErrNotFound)
       ELSE /\ pc' = "find_brace"
            /\ UNCHANGED <<stderr, exit_code>>
    /\ UNCHANGED <<content, brace_start, brace_count, brace_end, i,
                   array_content, checkpoint_data, height, output, stdout>>

\* lines 52-58
FindBrace ==
    /\ pc = "find_brace"
    /\ brace_start' = Find(content, <<"{">>, array_start)
    /\ IF brace_start' = -1
       THEN /\ Raise(ErrNoBrace)
            /\ UNCHANGED <<brace_count, brace_end, i>>
       ELSE /\ brace_count' = 0
            /\ brace_end' = brace_start'
            /\ i' = brace_start'
            /\ pc' = "scan"
            /\ UNCHANGED <<stderr, exit_code>>
    /\ UNCHANGED <<content, array_start, array_content, checkpoint_data,
                   height, output, stdout>>

\* one iteration of the loop of lines 60-67
ScanStep ==
    /\ pc = "scan"
    /\ i < Len(content)
    /\ brace_count' = CountAfter(At(content, i), brace_count)
    /\ IF At(content, i) = "}"
       THEN IF brace_count' = 0
            THEN /\ brace_end' = i
                 /\ pc' = "after_scan"
                 /\ UNCHANGED i
            ELSE /\ i' = i + 1
                 /\ UNCHANGED <<brace_end, pc>>
       ELSE /\ i' = i + 1
            /\ UNCHANGED <<brace_end, pc>>
    /\ UNCHANGED <<content, array_start, brace_start, array_content,
                   checkpoint_data, height, output, stdout, stderr, exit_code>>

\* the range of line 60 is used up without a break
ScanExhausted ==
    /\ pc = "scan"
    /\ i >= Len(content)
    /\ pc' = "after_scan"
    /\ UNCHANGED <<content, array_start, brace_start, brace_count, brace_end, i,
                   array_content, checkpoint_data, height, output, stdout,
                   stderr, exit_code>>

\* ReturnArray without the test of line 69
ReturnArray_Unchecked ==
    /\ pc = "after_scan"
    /\ array_content' = ArraySlice(content, brace_start, brace_end)
    /\ pc' = "decode"
    /\ UNCHANGED <<content, array_start, brace_start, brace_count, brace_end, i,
                   checkpoint_data, height, output, stdout, stderr, exit_code>>

\* lines 69-75 and the assignment of line 102
ReturnArray ==
    /\ pc = "after_scan"
    /\ IF brace_count # 0
       THEN /\ Raise(ErrUnbalanced)
            /\ UNCHANGED array_content
       ELSE /\ array_content' = ArraySlice(content, brace_start, brace_end)
            /\ pc' = "decode"
            /\ UNCHANGED <<stderr, exit_code>>
    /\ UNCHANGED <<content, array_start, brace_start, brace_count, brace_end, i,
                   checkpoint_data, height, output, stdout>>

\* line 105
Decode ==
    /\ pc = "decode"
    /\ checkpoint_data' = extract_hex_strings(array_content)
    /\ pc' = "check_size"
    /\ UNCHANGED <<content, array_start, brace_start, brace_count, brace_end, i,
                   array_content, height, output, stdout, stderr, exit_code>>

\* lines 108-117
CheckSize ==
    /\ pc = "check_size"
    /\ LET n == Len(checkpoint_data)
           said == stdout \o <<MsgExtracted(n), MsgExpectedSize(expected_size)>>
       IN  IF SizeMismatch(n)
           THEN /\ stdout' = said
                /\ stderr' = stderr \o <<MsgSizeMismatch(expected_size, n),
                                          MsgSizeHint>>
           ELSE /\ stdout' = Append(said, MsgSizeOk)
                /\ UNCHANGED stderr
    /\ pc' = "check_height"
    /\ UNCHANGED <<content, array_start, brace_start, brace_count, brace_end, i,
                   array_content, checkpoint_data, height, output, exit_code>>

\* lines 120-128
CheckHeight ==
    /\ pc = "check_height"
    /\ IF HasHeightField(checkpoint_data)
       THEN /\ height' = HeightOf(SubSeq(checkpoint_data, 1, 4))
            /\ IF height' # expected_height
               THEN /\ stdout' = Append(stdout, MsgHeight(height', expected_height))
                    /\ stderr' = Append(stderr,
                                        MsgHeightMismatch(expected_height, height'))
               ELSE /\ stdout' = stdout \o <<MsgHeight(height', expected_height),
                                              MsgHeightOk>>
                    /\ UNCHANGED stderr
       ELSE UNCHANGED <<height, stdout, stderr>>
    /\ pc' = "write"
    /\ UNCHANGED <<content, array_start, brace_start, brace_count, brace_end, i,
                   array_content, checkpoint_data, output, exit_code>>

\* WriteOutput that refuses a record of the wrong size
WriteOutput_Strict ==
    /\ pc = "write"
    /\ IF SizeMismatch(Len(checkpoint_data))
       THEN /\ exit_code' = 1
            /\ UNCHANGED <<output, stdout>>
       ELSE /\ output' = checkpoint_data
            /\ stdout' = stdout \o <<MsgWrote, MsgFileSize(Len(checkpoint_data))>>
            /\ exit_code' = 0
    /\ pc' = "exit"
    /\ UNCHANGED <<content, array_start, brace_start, brace_count, brace_end, i,
                   array_content, checkpoint_data, height, stderr>>

\* lines 131-138; falling off the end of main exits with status 0
WriteOutput ==
    /\ pc = "write"
    /\ output' = checkpoint_data
    /\ stdout' = stdout \o <<MsgWrote, MsgFileSize(Len(checkpoint_data))>>
    /\ exit_code' = 0
    /\ pc' = "exit"
    /\ UNCHANGED <<content, array_start, brace_start, brace_count, brace_end, i,
                   array_content, checkpoint_data, height, stderr>>

Next ==
    \/ CheckInput
    \/ FindArray
    \/ FindBrace
    \/ ScanStep
    \/ ScanExhausted
    \/ ReturnArray
    \/ Decode
    \/ CheckSize
    \/ CheckHeight
    \/ WriteOutput

Spec == Init /\ [][Next]_vars

-----------------------------------------------------------------------------
(* extract_hex_strings on its own: any escape-bearing text as its argument *)

\* longest text given to extract_hex_strings directly, in parts
MaxParts == 4

\* whole escapes, broken escapes and the characters escapes are made of
EscapeParts ==
    { <<"\\">>, <<"x">>, <<"0">>, <<"F">>, <<"g">>,
      <<"\\","x","a">>, <<"\\","x","1","b">>, <<"\\","X","2","2">> }

EscapeTexts ==
    { Concat(f) : f \in UNION { [1..n -> EscapeParts] : n \in 0..MaxParts } }

InitDecode ==
    /\ array_content \in EscapeTexts
    /\ pc = "decode"
    /\ content = NoText
    /\ array_start = -1
    /\ brace_start = -1
    /\ brace_count = 0
    /\ brace_end = -1
    /\ i = -1
    /\ checkpoint_data = NoBytes
    /\ height = -1
    /\ output = NoBytes
    /\ stdout = <<MsgReading>>
    /\ stderr = <<>>
    /\ exit_code = -1

NextDecode == Decode

SpecDecode == InitDecode /\ [][NextDecode]_vars

-----------------------------------------------------------------------------
(* main from line 107 on: any decoded record, the full-size ones included *)

\* lengths of the records: the short ones and the ones around expected_size
RecordLengths == (0..MaxShort) \cup {35435, 35436, 35437}

Records == { Record(h, n) : h \in Heads, n \in RecordLengths }

InitValidate ==
    /\ checkpoint_data \in Records
    /\ pc = "check_size"
    /\ content = NoText
    /\ array_content = NoText
    /\ array_start = -1
    /\ brace_start = -1
    /\ brace_count = 0
    /\ brace_end = -1
    /\ i = -1
    /\ height = -1
    /\ output = NoBytes
    /\ stdout = <<MsgReading>>
    /\ stderr = <<>>
    /\ exit_code = -1

NextValidate ==
    \/ CheckSize
    \/ CheckHeight
    \/ WriteOutput

SpecValidate == InitValidate /\ [][NextValidate]_vars

-----------------------------------------------------------------------------
(* main as a whole: runs from the start on the input texts, and runs from    *)
(* line 107 on the records no input text of the model is long enough to hold. *)

InitMain == Init \/ InitValidate

SpecMain == InitMain /\ [][Next]_vars

-----------------------------------------------------------------------------
(* What the properties are stated in: the text itself, read declaratively *)

\* the set of elements of a sequence
Range(q) == { q[k] : k \in 1..Len(q) }

\* the least element of a non-empty set of integers
Least(S) == CHOOSE k \in S : \A m \in S : k <= m

\* 0-based positions at which the array name starts
NamePositions(s) ==
    { k \in 0..(Len(s) - Len(Name)) : \A j \in 1..Len(Name) : s[k + j] = Name[j] }

\* 0-based positions of '{' at or after the first occurrence of the name
OpenPositions(s) ==
    IF NamePositions(s) = {} THEN {}
    ELSE { k \in Least(NamePositions(s))..(Len(s) - 1) : s[k + 1] = "{" }

\* number of '{' minus number of '}' in s[a..b] (0-based, inclusive)
Depth(s, a, b) ==
    Cardinality({ k \in a..b : s[k + 1] = "{" })
    - Cardinality({ k \in a..b : s[k + 1] = "}" })

\* positions of a '}' after the opening brace o at which the depth is 0
ClosePositions(s, o) ==
    { c \in (o + 1)..(Len(s) - 1) : s[c + 1] = "}" /\ Depth(s, o, c) = 0 }

NameOccurs == NamePositions(content) # {}
BraceFollows == OpenPositions(content) # {}
Opening == Least(OpenPositions(content))
NestingCloses == BraceFollows /\ ClosePositions(content, Opening) # {}
Closing == Least(ClosePositions(content, Opening))

FileMissing == stderr = <<MsgInputNotFound>>
LocateErrors == { ErrNotFound, ErrNoBrace, ErrUnbalanced }
LocateFailed == LocateErrors \cap Range(stderr) # {}
LocateReturned == array_content # NoText

\* every prefix of t has at least as many '{' as '}', and the totals agree
Balanced(t) ==
    /\ \A k \in 1..Len(t) : Depth(t, 0, k - 1) >= 0
    /\ Depth(t, 0, Len(t) - 1) = 0

-----------------------------------------------------------------------------
(* C1 *)

\* C1: when the array name occurs and is followed by a '{' whose nesting
\* closes, extract_checkpoint_array does not fail and returns exactly the
\* characters strictly between the first '{' at or after the first occurrence
\* of the name and the first later '}' at which the depth is back to 0.
C1_LocateReturnsInitializer ==
    (pc \in {"decode", "exit"} /\ NameOccurs /\ NestingCloses) =>
        /\ ~LocateFailed
        /\ LocateReturned =>
              /\ Len(array_content) = Closing - Opening - 1
              /\ \A k \in 1..Len(array_content) :
                    array_content[k] = content[Opening + 1 + k]

\* a nested initializer has been returned from a text that has text before
\* the name and further braces after the closing brace
C1_Witness ==
    /\ pc = "decode"
    /\ NameOccurs /\ NestingCloses
    /\ "{" \in Range(array_content)
    /\ Least(NamePositions(content)) > 0
    /\ "}" \in Range(SubSeq(content, Closing + 2, Len(content)))

-----------------------------------------------------------------------------
(* C4 *)

\* how the specification names the three ValueErrors
NotFoundError == { ErrNotFound }
MalformedLiteralError == { ErrNoBrace, ErrUnbalanced }

\* the run has ended in the except clause with exactly this class of error
\* and nothing was returned
FailedWith(class) ==
    /\ pc = "exit" /\ exit_code = 1
    /\ Len(stderr) = 1 /\ stderr[1] \in class
    /\ ~LocateReturned

\* C4: extract_checkpoint_array fails with the not-found error when the name
\* does not occur, and with the malformed-literal error when no '{' follows
\* the name or the depth never returns to 0; nothing is returned then.
C4_LocateFailures ==
    /\ (pc \notin {"start", "find_name"} /\ ~FileMissing /\ ~NameOccurs)
          => FailedWith(NotFoundError)
    /\ (pc \notin {"start", "find_name", "find_brace"} /\ ~FileMissing
          /\ NameOccurs /\ ~BraceFollows)
          => FailedWith(MalformedLiteralError)
    /\ (pc \notin {"start", "find_name", "find_brace", "scan", "after_scan"}
          /\ ~FileMissing /\ NameOccurs /\ BraceFollows /\ ~NestingCloses)
          => FailedWith(MalformedLiteralError)
    /\ LocateFailed => ~LocateReturned

\* a nested, never closed initializer was rejected
C4_Witness ==
    /\ FailedWith({ErrUnbalanced})
    /\ NameOccurs /\ BraceFollows /\ ~NestingCloses
    /\ brace_count >= 2

-----------------------------------------------------------------------------
(* C10 *)

\* C10: during the scan the depth counter equals the nesting depth of the
\* text read so far, is at least 1 once the opening brace has been read and
\* never negative; on success brace_end > brace_start, the depth is 0 at brace_end for the
\* first time, and the returned text has balanced braces.
C10_BraceScan ==
    /\ brace_count >= 0
    /\ pc = "scan" =>
          /\ brace_count = Depth(content, brace_start, i - 1)
          /\ i > brace_start => brace_count >= 1
    /\ pc = "decode" =>
          /\ brace_end > brace_start
          /\ brace_count = 0
          /\ Depth(content, brace_start, brace_end) = 0
          /\ \A k \in brace_start..(brace_end - 1) :
                Depth(content, brace_start, k) >= 1
          /\ Balanced(array_content)

\* the scan is two levels deep
C10_Witness ==
    /\ pc = "scan"
    /\ brace_count >= 2
    /\ i < Len(content)

-----------------------------------------------------------------------------
(* C2 *)

\* the digits of base 16 and their values
HexValues ==
    ("0" :> 0) @@ ("1" :> 1) @@ ("2" :> 2) @@ ("3" :> 3) @@ ("4" :> 4) @@
    ("5" :> 5) @@ ("6" :> 6) @@ ("7" :> 7) @@ ("8" :> 8) @@ ("9" :> 9) @@
    ("a" :> 10) @@ ("b" :> 11) @@ ("c" :> 12) @@ ("d" :> 13) @@ ("e" :> 14) @@
    ("f" :> 15) @@ ("A" :> 10) @@ ("B" :> 11) @@ ("C" :> 12) @@ ("D" :> 13) @@
    ("E" :> 14) @@ ("F" :> 15)

\* 1-based positions of t at which an escape token (backslash, x, two hex
\* digits) starts
TokenPositions(t) ==
    { p \in 1..(Len(t) - 3) :
        /\ t[p] = "\\"
        /\ t[p + 1] = "x"
        /\ t[p + 2] \in DOMAIN HexValues
        /\ t[p + 3] \in DOMAIN HexValues }

\* the bytes B are the values of the tokens of t, in their order in t
BytesOfTokens(B, t) ==
    LET P == TokenPositions(t)
    IN  /\ Len(B) = Cardinality(P)
        /\ \A p \in P :
              B[Cardinality({ q \in P : q <= p })]
                 = 16 * HexValues[t[p + 2]] + HexValues[t[p + 3]]

\* C2: extract_hex_strings returns one byte per escape token, in the order
\* of the tokens, each byte the base-16 value of the token's digits; the rest
\* of the text is ignored and a text without tokens gives no bytes.
C2_DecodeTokens ==
    pc = "check_size" =>
        /\ BytesOfTokens(checkpoint_data, array_content)
        /\ TokenPositions(array_content) = {} => checkpoint_data = <<>>

\* two tokens of different value, one of them in upper case, among other text
C2_Witness ==
    /\ pc = "check_size"
    /\ Len(checkpoint_data) = 2
    /\ checkpoint_data[1] = 27
    /\ checkpoint_data[2] = 175
    /\ Len(array_content) > 8

-----------------------------------------------------------------------------
(* C3 *)

\* every generated declaration: its text, the bytes written into it and the
\* 0-based position of the opening brace of its initializer
DeclarationCases ==
    { <<Declaration(pre, mid, Record(h, n), style, suf), Record(h, n),
        Len(pre) + Len(Name) + Len(mid), pre>> :
        pre \in Prefixes, mid \in Mids, h \in Heads, n \in 0..MaxBytes,
        style \in Styles, suf \in Suffixes }

Decoded == pc \in {"check_size", "check_height", "write"} \/ (pc = "exit" /\ exit_code = 0)

\* C3 as stated: whatever text surrounds the declaration, the bytes written
\* into its initializer are the bytes decoded.
C3_RoundTripAnywhere ==
    (Decoded \/ LocateFailed) =>
        \A c \in DeclarationCases :
            c[1] = content => (~LocateFailed /\ checkpoint_data = c[2])

\* C3 amended: when the opening brace of the initializer is the first '{'
\* at or after the first occurrence of the array name in the text, the bytes
\* written into the initializer are the bytes decoded.
C3_RoundTrip ==
    (Decoded \/ LocateFailed) =>
        \A c \in DeclarationCases :
            (c[1] = content /\ Opening = c[3])
                => (~LocateFailed /\ checkpoint_data = c[2])

\* a record of at least four bytes came back out of a declaration that has
\* text before it and escapes after it
C3_Witness ==
    /\ pc = "check_size"
    /\ \E c \in DeclarationCases :
          /\ c[1] = content /\ Opening = c[3]
          /\ c[4] # <<>>
          /\ Len(c[2]) >= 4
          /\ checkpoint_data = c[2]
    /\ TokenPositions(content) # TokenPositions(SubSeq(content, 1, Closing))

-----------------------------------------------------------------------------
(* C6 *)

\* nothing of the decode, the checks or the write has happened
NothingDownstream ==
    /\ checkpoint_data = NoBytes
    /\ height = -1
    /\ output = NoBytes
    /\ stdout = <<MsgReading>>

\* C6: once extract_checkpoint_array has failed the run is over with exit
\* status 1, no decode, check or write has happened and no further step is
\* taken; the artifact is only ever written after the array was returned and
\* decoded, in a run without a locate error.
C6_FailureAborts ==
    /\ [](LocateFailed =>
            /\ pc = "exit" /\ exit_code = 1
            /\ ~LocateReturned
            /\ NothingDownstream)
    /\ [][~LocateFailed]_vars
    /\ [](output # NoBytes =>
            /\ LocateReturned
            /\ ~LocateFailed
            /\ checkpoint_data # NoBytes
            /\ output = checkpoint_data)
    /\ [][output' # output => (pc = "write" /\ LocateReturned /\ checkpoint_data # NoBytes)]_vars

\* the run ended on a missing opening brace with nothing decoded or written
C6_Witness ==
    /\ pc = "exit" /\ exit_code = 1
    /\ stderr = <<ErrNoBrace>>
    /\ NothingDownstream

-----------------------------------------------------------------------------
(* The report of the checks, as read off the output *)

SizeOk == MsgSizeOk \in Range(stdout)
HeightOk == MsgHeightOk \in Range(stdout)
SizeWarned == \E m \in Range(stderr) : m[1] = MsgSizeMismatch(0, 0)[1]
HeightWarned == \E m \in Range(stderr) : m[1] = MsgHeightMismatch(0, 0)[1]
HeightLines == { m \in Range(stdout) : m[1] = MsgHeight(0, 0)[1] }
ValidationDone == pc = "write" \/ (pc = "exit" /\ exit_code = 0)

-----------------------------------------------------------------------------
(* C5 *)

\* C5: a run in which the array was located never ends with exit status 1:
\* from the decode on, every step leads to the next stage (decode, size
\* check, height check, write, exit with status 0) whatever the checks
\* found; the bytes written are the decoded bytes, which the checks leave as
\* they are, and they are 35436 bytes whenever the size check passed.
C5_ValidationNeverFatal ==
    /\ []((pc = "exit" /\ exit_code = 1) => (FileMissing \/ LocateFailed))
    /\ []((pc = "exit" /\ exit_code = 0) =>
            /\ output # NoBytes
            /\ output = checkpoint_data
            /\ LocateReturned => BytesOfTokens(output, array_content)
            /\ SizeOk => Len(output) = 35436)
    /\ [][(pc \in {"check_size", "check_height", "write"}
            => (checkpoint_data' = checkpoint_data))]_vars
    /\ [][/\ pc = "decode" => pc' = "check_size"
          /\ pc = "check_size" => pc' = "check_height"
          /\ pc = "check_height" => pc' = "write"
          /\ pc = "write" =>
                (pc' = "exit" /\ exit_code' = 0 /\ output' = checkpoint_data)]_vars

\* a full-size record with the wrong height was written
C5_Witness ==
    /\ pc = "exit" /\ exit_code = 0
    /\ SizeOk /\ HeightWarned
    /\ Len(output) = 35436

-----------------------------------------------------------------------------
(* C7 *)

\* the expected and the actual size are both printed
SaysSize ==
    /\ MsgExtracted(Len(checkpoint_data)) \in Range(stdout)
    /\ MsgExpectedSize(35436) \in Range(stdout)

\* C7 as stated: once the checks have run, the expected and the actual size
\* and the expected and the actual height have been printed, whatever the
\* length of the record.
C7_AlwaysSaysSizeAndHeight ==
    ValidationDone =>
        /\ SaysSize
        /\ \E m \in HeightLines : m[3] = 136000

\* C7 amended: once the checks have run, the expected and the actual size
\* have been printed; the expected and the actual height have been printed
\* when the record has at least 4 bytes, and no height at all when it has
\* fewer.
C7_SaysSizeAndHeight ==
    ValidationDone =>
        /\ SaysSize
        /\ Len(checkpoint_data) >= 4 =>
              \E m \in HeightLines : m[2] = height /\ m[3] = 136000
        /\ Len(checkpoint_data) < 4 => HeightLines = {}

\* both checks failed on a record of 4 bytes or more, and all four numbers
\* were printed
C7_Witness ==
    /\ ValidationDone
    /\ SizeWarned /\ HeightWarned
    /\ Len(checkpoint_data) = 4
    /\ SaysSize
    /\ HeightLines # {}

-----------------------------------------------------------------------------
(* C8 *)

-----------------------------------------------------------------------------
(* C9 *)

\* C9: the size check passes exactly when the record has 35436 bytes,
\* whatever its first bytes are; otherwise a warning with both sizes is
\* printed, and the run goes on to the write and exits with status 0.
C9_SizeCheck ==
    pc \in {"check_height", "write", "exit"} =>
        /\ SizeOk <=> Len(checkpoint_data) = 35436
        /\ SizeWarned <=> ~SizeOk
        /\ ~SizeOk =>
              MsgSizeMismatch(35436, Len(checkpoint_data)) \in Range(stderr)
        /\ exit_code # 1
        /\ pc = "exit" => (exit_code = 0 /\ output = checkpoint_data)

\* a record one byte short failed the size check, passed the height check
\* and was written
C9_Witness ==
    /\ pc = "exit" /\ exit_code = 0
    /\ Len(checkpoint_data) = 35435
    /\ ~SizeOk /\ SizeWarned
    /\ HeightOk
    /\ output = checkpoint_data

=============================================================================
